---- MODULE Spec2Model ----
(***************************************************************************)
(* Model of src/index.tsx: a browser client with a model selector, an      *)
(* upload store, an image-editing request flow (generateEditedImage) and   *)
(* an image-generation request flow (generateImages).                      *)
(*                                                                         *)
(* JavaScript strings that the code builds or takes apart (the prompt, a   *)
(* data URL, an alt text) are sequences of tokens, so that trim, split and *)
(* template concatenation are computed and not assumed. A value that may   *)
(* be null or undefined is a sequence of length at most one: <<>> is       *)
(* null/undefined and <<x>> is the value x.                                *)
(*                                                                         *)
(* Every event handler runs to completion before the next event (the host  *)
(* event loop), so each handler, and each continuation after an await, is  *)
(* one action.                                                             *)
(***************************************************************************)
EXTENDS Integers, Sequences, FiniteSets, Bags, TLC

VARIABLES
    modelSelector,        \* modelSelector.value
    imageGallery,         \* [ariaBusy, innerHTML]: aria-busy and the child nodes
    imageEditingControls, \* imageEditingControls.style.display
    imageUpload,          \* imageUpload.value (the chosen file's name, "" if none)
    imagePreview,         \* [src, display] of the preview image
    promptInput,          \* promptInput.value
    uploadedImageData,    \* the upload store: None or Some([data, mimeType])
    readers,              \* bag of the FileReaders whose readAsDataURL has not finished:
                          \* [file, beforeReset], beforeReset being history: the
                          \* upload state was reset after this read started
    pending,              \* bag of the service calls issued and not yet settled
    settled               \* history: None, or Some of the call the last step settled
                          \* (its api and prompt) and the service's answer to it

vars == <<modelSelector, imageGallery, imageEditingControls, imageUpload,
          imagePreview, promptInput, uploadedImageData, readers, pending, settled>>

---------------------------------------------------------------------------
(* Bounds of the model *)

\* service calls that may be outstanding at once
MaxPending == 2
\* file reads that may be outstanding at once
MaxReads == 1

---------------------------------------------------------------------------
(* null / undefined *)

None == <<>>
Some(x) == <<x>>
IsSome(o) == o # <<>>
Get(o) == o[1]
Opt(S) == {None} \cup {Some(x) : x \in S}

\* a bag with one more / one fewer copy of x
Put(bag, x) == bag (+) SetToBag({x})
Take(bag, x) == bag (-) SetToBag({x})

---------------------------------------------------------------------------
(* Constants of the program *)

availableModels ==
    << "gemini-2.5-flash-image-preview",
       "imagen-4.0-generate-001",
       "imagen-4.0-ultra-generate-001",
       "imagen-4.0-fast-generate-001",
       "imagen-3.0-generate-002" >>

Models == {availableModels[i] : i \in 1..Len(availableModels)}

EditingModel == "gemini-2.5-flash-image-preview"

UltraModel == "imagen-4.0-ultra-generate-001"

imagenPrompt == <<"Editorial wildlife photograph: ...">>

MsgLoading == "Generating images, please wait..."
MsgNoImage == "Please upload an image first."
MsgNoPrompt == "Please enter a prompt to describe the edits."
MsgBlocked == "No image was generated. The response may have been blocked."
MsgEditFailed == "Could not edit image. Check the console for details."
MsgGenerateFailed == "Could not generate images. Check the console for details."

---------------------------------------------------------------------------
(* Inputs: what the user types and chooses, what the service answers *)

\* texts the user may leave in the prompt field
PromptTexts == { <<>>, <<" ">>, <<" ", "a", " ">> }

\* files the user may choose
Files == { [name |-> "a.png", type |-> "image/png", base64 |-> "AAAA"] }

\* The service's answers. The payload of the k-th part or entry of an answer is
\* named after k, so the images of one answer are pairwise different and their
\* order shows in the gallery.
Payload(k) == "bytes-" \o ToString(k)

\* a content part of an edit response: inlineData and text are both optional
EditPart(kind, k) ==
    IF kind = "image"
    THEN [inlineData |-> Some([mimeType |-> "image/png", data |-> Payload(k)]),
          text |-> None]
    ELSE [inlineData |-> None, text |-> Some("caption")]

\* the part lists of the edit responses that are tried
EditShapes ==
    { <<>>, <<"image">>, <<"text">>, <<"image", "image">>, <<"text", "image">>,
      <<"image", "text", "image">> }

\* response?.candidates?.[0]?.content?.parts: None when any link is missing
EditResponses ==
    {[parts |-> None]} \cup
    {[parts |-> Some([k \in 1..Len(kinds) |-> EditPart(kinds[k], k)])] :
        kinds \in EditShapes}

\* an entry of generatedImages: image and image.imageBytes are both optional
GeneratedImage(kind, k) ==
    CASE kind = "image" -> [image |-> Some([imageBytes |-> Some(Payload(k))])]
      [] kind = "noBytes" -> [image |-> Some([imageBytes |-> None])]
      [] OTHER -> [image |-> None]

\* the image lists of the generate responses that are tried
GenerateShapes ==
    { <<>>, <<"image">>, <<"noImage">>, <<"image", "image">>, <<"noBytes", "image">>,
      <<"image", "noImage", "image">> }

GenerateResponses ==
    {[generatedImages |-> None]} \cup
    {[generatedImages |-> Some([k \in 1..Len(kinds) |-> GeneratedImage(kinds[k], k)])] :
        kinds \in GenerateShapes}

---------------------------------------------------------------------------
(* Pure helpers *)

\* String.prototype.trim on a token string
RECURSIVE TrimStart(_)
TrimStart(s) ==
    IF s = <<>> THEN s
    ELSE IF Head(s) = " " THEN TrimStart(Tail(s)) ELSE s

RECURSIVE TrimEnd(_)
TrimEnd(s) ==
    IF s = <<>> THEN s
    ELSE IF s[Len(s)] = " " THEN TrimEnd(SubSeq(s, 1, Len(s) - 1)) ELSE s

\* mutant: the prompt is used untrimmed
TrimNothing(s) == s

Trim(s) == TrimEnd(TrimStart(s))

\* String.prototype.split(sep): the pieces between the separators
RECURSIVE Split(_, _)
Split(s, sep) ==
    IF s = <<>> THEN << <<>> >>
    ELSE IF Head(s) = sep THEN << <<>> >> \o Split(Tail(s), sep)
    ELSE LET r == Split(Tail(s), sep)
         IN  << <<Head(s)>> \o r[1] >> \o Tail(r)

\* FileReader.readAsDataURL: reader.result after a successful read
ReadAsDataURL(file) == <<"data:", file.type, ";base64", ",", file.base64>>

\* `data:${mimeType};base64,${data}`
DataUrl(mimeType, data) == <<"data:", mimeType, ";base64,">> \o data

LoadingNode == [kind |-> "loading", text |-> MsgLoading, src |-> <<>>, alt |-> <<>>]
ErrorNode(message) == [kind |-> "error", text |-> message, src |-> <<>>, alt |-> <<>>]
ImgNode(src, alt) == [kind |-> "img", text |-> "", src |-> src, alt |-> alt]

\* mutant: leaving the loading state does not empty the gallery
SetLoadingKeepContent(gallery, isLoading) ==
    IF isLoading
    THEN [ariaBusy |-> TRUE, innerHTML |-> <<LoadingNode>>]
    ELSE [gallery EXCEPT !.ariaBusy = FALSE]

SetLoading(gallery, isLoading) ==
    IF isLoading
    THEN [ariaBusy |-> TRUE, innerHTML |-> <<LoadingNode>>]
    ELSE [ariaBusy |-> FALSE, innerHTML |-> <<>>]

\* mutant: the error is added to whatever the gallery shows
DisplayErrorAppend(gallery, message) ==
    [gallery EXCEPT !.innerHTML = Append(@, ErrorNode(message))]

\* mutant: the error is shown without leaving the loading state
DisplayErrorKeepBusy(gallery, message) ==
    [gallery EXCEPT !.innerHTML = <<ErrorNode(message)>>]

DisplayError(gallery, message) ==
    [SetLoading(gallery, FALSE) EXCEPT !.innerHTML = <<ErrorNode(message)>>]

\* mutant: the ultra model is not special-cased
NumberOfImagesAlwaysThree(selectedModel) == 3

NumberOfImages(selectedModel) == IF selectedModel = UltraModel THEN 1 ELSE 3

\* the argument of ai.models.generateImages
GenerateImagesCall(selectedModel) ==
    [api |-> "generateImages",
     model |-> selectedModel,
     prompt |-> imagenPrompt,
     image |-> None,
     numberOfImages |-> Some(NumberOfImages(selectedModel))]

\* the argument of ai.models.generateContent
GenerateContentCall(image, prompt) ==
    [api |-> "generateContent",
     model |-> EditingModel,
     prompt |-> prompt,
     image |-> Some([data |-> image.data, mimeType |-> image.mimeType]),
     numberOfImages |-> None]

\* mutant: each image is inserted before the ones already rendered
RECURSIVE RenderPartsPrepend(_, _, _)
RenderPartsPrepend(parts, prompt, gallery) ==
    IF parts = <<>> THEN gallery
    ELSE LET part == Head(parts)
             next ==
                 IF IsSome(part.inlineData)
                 THEN [gallery EXCEPT !.innerHTML =
                         <<ImgNode(DataUrl(Get(part.inlineData).mimeType,
                                           <<Get(part.inlineData).data>>),
                                   prompt)>> \o @]
                 ELSE gallery
         IN  RenderPartsPrepend(Tail(parts), prompt, next)

\* the loop over the response parts of the edit flow
RECURSIVE RenderParts(_, _, _)
RenderParts(parts, prompt, gallery) ==
    IF parts = <<>> THEN gallery
    ELSE LET part == Head(parts)
             next ==
                 IF IsSome(part.inlineData)
                 THEN [gallery EXCEPT !.innerHTML =
                         Append(@, ImgNode(DataUrl(Get(part.inlineData).mimeType,
                                                   <<Get(part.inlineData).data>>),
                                           prompt))]
                 ELSE gallery
         IN  RenderParts(Tail(parts), prompt, next)

\* mutant: the images are numbered by how many have been rendered
RECURSIVE RenderGeneratedByCount(_, _, _)
RenderGeneratedByCount(images, index, gallery) ==
    IF images = <<>> THEN gallery
    ELSE LET generatedImage == Head(images)
             present == /\ IsSome(generatedImage.image)
                        /\ IsSome(Get(generatedImage.image).imageBytes)
             next ==
                 IF present
                 THEN [gallery EXCEPT !.innerHTML =
                         Append(@, ImgNode(DataUrl("image/jpeg",
                                                   <<Get(Get(generatedImage.image).imageBytes)>>),
                                           imagenPrompt \o
                                               <<" - Image ", ToString(Len(@) + 1)>>))]
                 ELSE gallery
         IN  RenderGeneratedByCount(Tail(images), index + 1, next)

\* generatedImages.forEach((generatedImage, index) => ...), index from 0
RECURSIVE RenderGenerated(_, _, _)
RenderGenerated(images, index, gallery) ==
    IF images = <<>> THEN gallery
    ELSE LET generatedImage == Head(images)
             present == /\ IsSome(generatedImage.image)
                        /\ IsSome(Get(generatedImage.image).imageBytes)
             next ==
                 IF present
                 THEN [gallery EXCEPT !.innerHTML =
                         Append(@, ImgNode(DataUrl("image/jpeg",
                                                   <<Get(Get(generatedImage.image).imageBytes)>>),
                                           imagenPrompt \o <<" - Image ", ToString(index + 1)>>))]
                 ELSE gallery
         IN  RenderGenerated(Tail(images), index + 1, next)

\* what the history variable keeps of a settled call
Settlement(call, rejected, response) ==
    [api |-> call.api, prompt |-> call.prompt, rejected |-> rejected,
     response |-> response]

\* mutant: the prompt is checked before the upload
EditPreconditionPromptFirst(upload, promptValue) ==
    IF Trim(promptValue) = <<>> THEN "noPrompt"
    ELSE IF upload = None THEN "noImage"
    ELSE "ok"

\* the two precondition checks of generateEditedImage, in the code's order
EditPrecondition(upload, promptValue) ==
    IF upload = None THEN "noImage"
    ELSE IF Trim(promptValue) = <<>> THEN "noPrompt"
    ELSE "ok"

---------------------------------------------------------------------------
(* State after the module has run: populateModelSelector, then the initial *)
(* handleModelChange() with the first option selected.                     *)

Init ==
    /\ modelSelector = availableModels[1]
    /\ imageGallery = [ariaBusy |-> FALSE, innerHTML |-> <<>>]
    /\ imageEditingControls = "flex"
    /\ imageUpload = ""
    /\ imagePreview = [src |-> <<"#">>, display |-> "none"]
    /\ promptInput = <<>>
    /\ uploadedImageData = None
    /\ readers = EmptyBag
    /\ pending = EmptyBag
    /\ settled = None

---------------------------------------------------------------------------
(* Actions *)

\* the user edits the prompt field
PromptInput(text) ==
    /\ text # promptInput
    /\ promptInput' = text
    /\ settled' = None
    /\ UNCHANGED <<modelSelector, imageGallery, imageEditingControls, imageUpload,
                   imagePreview, uploadedImageData, readers, pending>>

\* 'change' on the file input: files[0] is the chosen file, or undefined
HandleImageUpload(file) ==
    /\ IF IsSome(file)
       THEN /\ BagCardinality(readers) < MaxReads
            /\ imageUpload' = Get(file).name
            /\ readers' = Put(readers, [file |-> Get(file), beforeReset |-> FALSE])
       ELSE /\ imageUpload' = ""
            /\ UNCHANGED readers
    /\ settled' = None
    /\ UNCHANGED <<modelSelector, imageGallery, imageEditingControls,
                   imagePreview, promptInput, uploadedImageData, pending>>

\* mutant: a failed read empties the store
OnLoadEndFailureClears(reader, ok) ==
    /\ BagIn(reader, readers)
    /\ readers' = Take(readers, reader)
    /\ IF ok
       THEN LET file == reader.file
                base64String == Split(ReadAsDataURL(file), ",")[2]
            IN  /\ uploadedImageData' = Some([data |-> base64String, mimeType |-> file.type])
                /\ imagePreview' = [src |-> DataUrl(file.type, base64String),
                                    display |-> "block"]
       ELSE /\ uploadedImageData' = None
            /\ imagePreview' = [src |-> <<"#">>, display |-> "none"]
    /\ settled' = None
    /\ UNCHANGED <<modelSelector, imageGallery, imageEditingControls, imageUpload,
                   promptInput, pending>>

\* reader.onloadend: reader.result is the data URL, or null when the read failed
\* (then .split throws and the callback ends without assigning anything)
OnLoadEnd(reader, ok) ==
    /\ BagIn(reader, readers)
    /\ readers' = Take(readers, reader)
    /\ IF ok
       THEN LET file == reader.file
                base64String == Split(ReadAsDataURL(file), ",")[2]
            IN  /\ uploadedImageData' = Some([data |-> base64String, mimeType |-> file.type])
                /\ imagePreview' = [src |-> DataUrl(file.type, base64String),
                                    display |-> "block"]
       ELSE UNCHANGED <<uploadedImageData, imagePreview>>
    /\ settled' = None
    /\ UNCHANGED <<modelSelector, imageGallery, imageEditingControls, imageUpload,
                   promptInput, pending>>

\* history only: the reads that are still running started before this reset
MarkBeforeReset(bag) ==
    LET marked(r) == [r EXCEPT !.beforeReset = TRUE]
        old == BagToSet(bag)
    IN  [m \in {marked(r) : r \in old} |->
            (IF m \in old THEN bag[m] ELSE 0)
            + (IF [m EXCEPT !.beforeReset = FALSE] \in old
               THEN bag[[m EXCEPT !.beforeReset = FALSE]] ELSE 0)]

\* mutant: the reset forgets the prompt field
ResetUploadStateKeepPrompt ==
    /\ uploadedImageData' = None
    /\ imageUpload' = ""
    /\ imagePreview' = [src |-> <<"#">>, display |-> "none"]
    /\ promptInput' = promptInput
    /\ readers' = MarkBeforeReset(readers)

\* the "Reset upload state" block of handleModelChange
ResetUploadState ==
    /\ uploadedImageData' = None
    /\ imageUpload' = ""
    /\ imagePreview' = [src |-> <<"#">>, display |-> "none"]
    /\ promptInput' = <<>>
    /\ readers' = MarkBeforeReset(readers)

\* mutant: a generation is skipped while another call is outstanding
GenerateImagesIfIdle(gallery, selectedModel) ==
    IF pending # EmptyBag
    THEN /\ imageGallery' = gallery
         /\ UNCHANGED pending
    ELSE /\ imageGallery' = SetLoading(gallery, TRUE)
         /\ pending' = Put(pending, GenerateImagesCall(selectedModel))

\* generateImages up to its await, starting from the gallery the caller left
GenerateImages(gallery, selectedModel) ==
    /\ imageGallery' = SetLoading(gallery, TRUE)
    /\ pending' = Put(pending, GenerateImagesCall(selectedModel))

\* mutant: every change of the selector resets the upload state
HandleModelChangeResetAlways(selectedModel) ==
    /\ selectedModel # modelSelector
    /\ modelSelector' = selectedModel
    /\ LET cleared == [SetLoading(imageGallery, FALSE) EXCEPT !.innerHTML = <<>>]
       IN  IF selectedModel = EditingModel
           THEN /\ imageEditingControls' = "flex"
                /\ imageGallery' = cleared
                /\ ResetUploadState
                /\ UNCHANGED pending
           ELSE /\ BagCardinality(pending) < MaxPending
                /\ imageEditingControls' = "none"
                /\ GenerateImages(cleared, selectedModel)
                /\ ResetUploadState
    /\ settled' = None

\* 'change' on the selector: the user picks another option
HandleModelChange(selectedModel) ==
    /\ selectedModel # modelSelector
    /\ modelSelector' = selectedModel
    /\ LET cleared == [SetLoading(imageGallery, FALSE) EXCEPT !.innerHTML = <<>>]
       IN  IF selectedModel = EditingModel
           THEN /\ imageEditingControls' = "flex"
                /\ imageGallery' = cleared
                /\ ResetUploadState
                /\ UNCHANGED pending
           ELSE /\ BagCardinality(pending) < MaxPending
                /\ imageEditingControls' = "none"
                /\ GenerateImages(cleared, selectedModel)
                /\ UNCHANGED <<uploadedImageData, imageUpload, imagePreview, promptInput,
                               readers>>
    /\ settled' = None

\* mutant: a failed validation also empties the prompt field
RejectEditClearPrompt(message) ==
    /\ imageGallery' = DisplayError(imageGallery, message)
    /\ promptInput' = <<>>
    /\ UNCHANGED <<uploadedImageData, pending>>

\* a precondition of generateEditedImage failed: displayError and return
RejectEdit(message) ==
    /\ imageGallery' = DisplayError(imageGallery, message)
    /\ UNCHANGED <<uploadedImageData, promptInput, pending>>

\* 'click' on the edit button: generateEditedImage up to its await
GenerateEditedImage ==
    /\ LET outcome == EditPrecondition(uploadedImageData, promptInput)
       IN  /\ CASE outcome = "noImage" -> RejectEdit(MsgNoImage)
                [] outcome = "noPrompt" -> RejectEdit(MsgNoPrompt)
                [] OTHER ->
                     /\ BagCardinality(pending) < MaxPending
                     /\ imageGallery' = SetLoading(imageGallery, TRUE)
                     /\ pending' = Put(pending,
                                       GenerateContentCall(Get(uploadedImageData),
                                                           Trim(promptInput)))
                     /\ UNCHANGED <<uploadedImageData, promptInput>>
    /\ settled' = None
    /\ UNCHANGED <<modelSelector, imageEditingControls, imageUpload, imagePreview, readers>>

\* mutant: the alt text is read from the prompt field when the response arrives
EditResolvedReadsPromptField(call, response) ==
    /\ BagIn(call, pending)
    /\ call.api = "generateContent"
    /\ LET idle == SetLoading(imageGallery, FALSE)
       IN  imageGallery' =
               IF IsSome(response.parts)
               THEN RenderParts(Get(response.parts), Trim(promptInput), idle)
               ELSE DisplayError(idle, MsgBlocked)
    /\ pending' = Take(pending, call)
    /\ settled' = Some(Settlement(call, FALSE, Some(response)))
    /\ UNCHANGED <<modelSelector, imageEditingControls, imageUpload, imagePreview,
                   promptInput, uploadedImageData, readers>>

\* generateContent resolved: the rest of the try block of generateEditedImage
EditResolved(call, response) ==
    /\ BagIn(call, pending)
    /\ call.api = "generateContent"
    /\ LET idle == SetLoading(imageGallery, FALSE)
       IN  imageGallery' =
               IF IsSome(response.parts)
               THEN RenderParts(Get(response.parts), call.prompt, idle)
               ELSE DisplayError(idle, MsgBlocked)
    /\ pending' = Take(pending, call)
    /\ settled' = Some(Settlement(call, FALSE, Some(response)))
    /\ UNCHANGED <<modelSelector, imageEditingControls, imageUpload, imagePreview,
                   promptInput, uploadedImageData, readers>>

\* generateContent rejected: the catch block of generateEditedImage
EditRejected(call) ==
    /\ BagIn(call, pending)
    /\ call.api = "generateContent"
    /\ imageGallery' = DisplayError(imageGallery, MsgEditFailed)
    /\ pending' = Take(pending, call)
    /\ settled' = Some(Settlement(call, TRUE, None))
    /\ UNCHANGED <<modelSelector, imageEditingControls, imageUpload, imagePreview,
                   promptInput, uploadedImageData, readers>>

\* mutant: the loading state is left only when the response has an image list
GenerateResolvedLeavesLoadingLate(call, response) ==
    /\ BagIn(call, pending)
    /\ call.api = "generateImages"
    /\ imageGallery' =
           IF IsSome(response.generatedImages)
           THEN RenderGenerated(Get(response.generatedImages), 0,
                                SetLoading(imageGallery, FALSE))
           ELSE imageGallery
    /\ pending' = Take(pending, call)
    /\ settled' = Some(Settlement(call, FALSE, Some(response)))
    /\ UNCHANGED <<modelSelector, imageEditingControls, imageUpload, imagePreview,
                   promptInput, uploadedImageData, readers>>

\* generateImages resolved: the rest of the try block of generateImages
GenerateResolved(call, response) ==
    /\ BagIn(call, pending)
    /\ call.api = "generateImages"
    /\ LET idle == SetLoading(imageGallery, FALSE)
       IN  imageGallery' =
               IF IsSome(response.generatedImages)
               THEN RenderGenerated(Get(response.generatedImages), 0, idle)
               ELSE idle
    /\ pending' = Take(pending, call)
    /\ settled' = Some(Settlement(call, FALSE, Some(response)))
    /\ UNCHANGED <<modelSelector, imageEditingControls, imageUpload, imagePreview,
                   promptInput, uploadedImageData, readers>>

\* generateImages rejected: the catch block of generateImages
GenerateRejected(call) ==
    /\ BagIn(call, pending)
    /\ call.api = "generateImages"
    /\ imageGallery' = DisplayError(imageGallery, MsgGenerateFailed)
    /\ pending' = Take(pending, call)
    /\ settled' = Some(Settlement(call, TRUE, None))
    /\ UNCHANGED <<modelSelector, imageEditingControls, imageUpload, imagePreview,
                   promptInput, uploadedImageData, readers>>

Next ==
    \/ \E text \in PromptTexts : PromptInput(text)
    \/ \E file \in Opt(Files) : HandleImageUpload(file)
    \/ \E reader \in BagToSet(readers), ok \in BOOLEAN : OnLoadEnd(reader, ok)
    \/ \E selectedModel \in Models : HandleModelChange(selectedModel)
    \/ GenerateEditedImage
    \/ \E call \in BagToSet(pending), response \in EditResponses :
           EditResolved(call, response)
    \/ \E call \in BagToSet(pending) : EditRejected(call)
    \/ \E call \in BagToSet(pending), response \in GenerateResponses :
           GenerateResolved(call, response)
    \/ \E call \in BagToSet(pending) : GenerateRejected(call)

Spec == Init /\ [][Next]_vars

---------------------------------------------------------------------------
(* Vocabulary of the properties, stated independently of the handlers *)

Idle(nodes) == [ariaBusy |-> FALSE, innerHTML |-> nodes]

Outstanding == BagCardinality(pending)

\* a prompt that is empty after trimming whitespace
IsBlank(text) == \A i \in 1..Len(text) : text[i] = " "

HasKind(gallery, kind) ==
    \E k \in 1..Len(gallery.innerHTML) : gallery.innerHTML[k].kind = kind

HasInlineData(part) == part.inlineData # None

HasImageBytes(generatedImage) ==
    /\ generatedImage.image # None
    /\ generatedImage.image[1].imageBytes # None

\* the images an edit response carries, in response order, as gallery nodes
EditImagesOf(parts, submittedPrompt) ==
    LET images == SelectSeq(parts, HasInlineData)
    IN  [k \in 1..Len(images) |->
            [kind |-> "img", text |-> "",
             src |-> <<"data:", images[k].inlineData[1].mimeType, ";base64,",
                       images[k].inlineData[1].data>>,
             alt |-> submittedPrompt]]

\* the image sources a generate response carries, in list order
GeneratedSourcesOf(images) ==
    LET present == SelectSeq(images, HasImageBytes)
    IN  [k \in 1..Len(present) |->
            <<"data:", "image/jpeg", ";base64,", present[k].image[1].imageBytes[1]>>]

SourcesOf(gallery) == [k \in 1..Len(gallery.innerHTML) |-> gallery.innerHTML[k].src]

OnlyImages(gallery) ==
    \A k \in 1..Len(gallery.innerHTML) : gallery.innerHTML[k].kind = "img"

---------------------------------------------------------------------------
(* C1: every selection of a generation model issues exactly one            *)
(* generateImages call, with that model and numberOfImages 1 for the ultra *)
(* model and 3 otherwise; selecting the editing model issues no call.      *)

C1_SelectionIssuesOneCall ==
    [][\A m \in Models :
          HandleModelChange(m) =>
              IF m = "gemini-2.5-flash-image-preview"
              THEN pending' = pending
              ELSE \E call \in BagToSet(pending') :
                      /\ pending' = Put(pending, call)
                      /\ call.api = "generateImages"
                      /\ call.model = m
                      /\ call.numberOfImages =
                             Some(IF m = "imagen-4.0-ultra-generate-001" THEN 1 ELSE 3)]_vars

\* an ultra call with one image and another generation call with three are outstanding
C1_Witness ==
    /\ modelSelector = "imagen-4.0-ultra-generate-001"
    /\ \E c \in BagToSet(pending) :
          c.model = "imagen-4.0-ultra-generate-001" /\ c.numberOfImages = Some(1)
    /\ \E c \in BagToSet(pending) :
          c.model = "imagen-3.0-generate-002" /\ c.numberOfImages = Some(3)

---------------------------------------------------------------------------
(* C2: an edit click while the upload store is absent shows the           *)
(* 'no image uploaded' error and issues no call, whatever the prompt is;   *)
(* with both inputs missing the error is still the 'no image' one.         *)

C2_AbsentUploadRejected ==
    [][(GenerateEditedImage /\ uploadedImageData = None) =>
          /\ imageGallery' = Idle(<<ErrorNode(MsgNoImage)>>)
          /\ pending' = pending]_vars

\* both inputs missing, and the error shown is the 'no image' one
C2_Witness ==
    /\ uploadedImageData = None
    /\ promptInput = <<" ">>
    /\ imageGallery = Idle(<<ErrorNode(MsgNoImage)>>)

---------------------------------------------------------------------------
(* C3: an edit click with an image in the store and a prompt that is       *)
(* blank after trimming shows the 'no prompt provided' error, never enters *)
(* the loading state and issues no call.                                   *)

C3_BlankPromptRejected ==
    [][(GenerateEditedImage /\ uploadedImageData # None /\ IsBlank(promptInput)) =>
          /\ imageGallery' = Idle(<<ErrorNode(MsgNoPrompt)>>)
          /\ ~HasKind(imageGallery', "loading")
          /\ pending' = pending]_vars

\* an image is stored, the prompt is one space, and the 'no prompt' error is shown
C3_Witness ==
    /\ uploadedImageData # None
    /\ promptInput = <<" ">>
    /\ imageGallery = Idle(<<ErrorNode(MsgNoPrompt)>>)

---------------------------------------------------------------------------
(* C4: handling a rejected call of either flow leaves the gallery with     *)
(* exactly the generic error of that flow, no image, and aria-busy false,  *)
(* whatever else is outstanding.                                           *)

C4_RejectionShowsGenericError ==
    (settled # None /\ settled[1].rejected) =>
        imageGallery =
            Idle(<<ErrorNode(IF settled[1].api = "generateContent"
                             THEN "Could not edit image. Check the console for details."
                             ELSE "Could not generate images. Check the console for details.")>>)

\* a generate call has just been rejected while an edit call is outstanding
C4_Witness ==
    /\ settled # None
    /\ settled[1].rejected
    /\ settled[1].api = "generateImages"
    /\ \E c \in BagToSet(pending) : c.api = "generateContent"

---------------------------------------------------------------------------
(* C5: after a resolved response with N image parts has been processed the *)
(* gallery holds exactly those N images in response order and nothing      *)
(* else: no loading indicator, no earlier node. Edit images carry the      *)
(* submitted prompt as alt text and text parts are not rendered. (An edit  *)
(* response without a parts list carries no image, and none is shown.)     *)

C5_ExactlyTheResponseImages ==
    (settled # None /\ ~settled[1].rejected) =>
        LET response == settled[1].response[1]
        IN  /\ ~HasKind(imageGallery, "loading")
            /\ IF settled[1].api = "generateContent"
               THEN IF response.parts # None
                    THEN imageGallery.innerHTML =
                             EditImagesOf(response.parts[1], settled[1].prompt)
                    ELSE ~HasKind(imageGallery, "img")
               ELSE /\ OnlyImages(imageGallery)
                    /\ SourcesOf(imageGallery) =
                           IF response.generatedImages # None
                           THEN GeneratedSourcesOf(response.generatedImages[1])
                           ELSE <<>>

\* an edit response of three parts, image, text, image, has just been processed
\* while another call was outstanding, and the field no longer holds the prompt
C5_Witness ==
    /\ settled # None
    /\ ~settled[1].rejected
    /\ settled[1].api = "generateContent"
    /\ settled[1].response[1].parts # None
    /\ Len(settled[1].response[1].parts[1]) = 3
    /\ Len(imageGallery.innerHTML) = 2
    /\ promptInput = <<>>
    /\ pending # EmptyBag

---------------------------------------------------------------------------
(* C6: a resolved edit response with zero content parts, or a resolved     *)
(* generate response without an image list, appends no image and leaves    *)
(* the UI not loading.                                                     *)

C6_EmptyResponseRendersNothing ==
    (/\ settled # None
     /\ ~settled[1].rejected
     /\ \/ settled[1].response[1] = [parts |-> Some(<<>>)]
        \/ settled[1].response[1] = [generatedImages |-> None]) =>
        /\ ~imageGallery.ariaBusy
        /\ ~HasKind(imageGallery, "loading")
        /\ ~HasKind(imageGallery, "img")

\* a generate response without an image list has just been processed while
\* another call, whose loading indicator was showing, is outstanding
C6_Witness ==
    /\ settled # None
    /\ ~settled[1].rejected
    /\ settled[1].response[1] = [generatedImages |-> None]
    /\ pending # EmptyBag

---------------------------------------------------------------------------
(* C7: right after the selector changes to the editing model the upload    *)
(* store is absent, the prompt is empty and the gallery is empty and not   *)
(* loading, whatever was held before.                                      *)

C7_SwitchToEditResets ==
    [][HandleModelChange("gemini-2.5-flash-image-preview") =>
          /\ uploadedImageData' = None
          /\ promptInput' = <<>>
          /\ imageGallery' = Idle(<<>>)]_vars

\* an edit call is still outstanding (so an image and a prompt were held), the
\* editing model is selected, and store, prompt and gallery are clear
C7_Witness ==
    /\ modelSelector = "gemini-2.5-flash-image-preview"
    /\ \E c \in BagToSet(pending) : c.api = "generateContent"
    /\ uploadedImageData = None
    /\ promptInput = <<>>
    /\ imageGallery = Idle(<<>>)

---------------------------------------------------------------------------
(* C8: an edit click that fails validation changes only the gallery: the   *)
(* upload store, the prompt and everything else stay as they were.         *)

C8_FailedValidationKeepsInputs ==
    [][(GenerateEditedImage /\ (uploadedImageData = None \/ IsBlank(promptInput))) =>
          /\ uploadedImageData' = uploadedImageData
          /\ promptInput' = promptInput
          /\ UNCHANGED <<modelSelector, imageEditingControls, imageUpload,
                         imagePreview, readers, pending>>]_vars

\* the 'no image' error is shown and the non-blank prompt is still in the field
C8_Witness ==
    /\ uploadedImageData = None
    /\ promptInput = <<" ", "a", " ">>
    /\ imageGallery = Idle(<<ErrorNode(MsgNoImage)>>)

---------------------------------------------------------------------------
(* C9: a resolved edit response with no content parts at all (the parts    *)
(* list absent, or present but empty) shows the 'no image generated /      *)
(* possibly blocked' error and leaves the loading state.                   *)

C9_NoPartsShowsBlockedError ==
    (/\ settled # None
     /\ ~settled[1].rejected
     /\ settled[1].api = "generateContent"
     /\ \/ settled[1].response[1].parts = None
        \/ settled[1].response[1].parts = Some(<<>>)) =>
        imageGallery =
            Idle(<<ErrorNode("No image was generated. The response may have been blocked.")>>)

---------------------------------------------------------------------------
(* C10, as claimed: at most one service call is outstanding in every       *)
(* reachable state.                                                        *)

C10_AtMostOneInFlight == Outstanding <= 1

(* C10, amended: nothing limits the outstanding calls to one. Every        *)
(* selection of a generation model and every edit click that passes        *)
(* validation issues exactly one new call, also while earlier calls are    *)
(* outstanding, and no step adds more than one.                            *)

C10_OneCallPerTrigger ==
    [][/\ \A m \in Models \ {"gemini-2.5-flash-image-preview"} :
            HandleModelChange(m) => BagCardinality(pending') = Outstanding + 1
       /\ (GenerateEditedImage /\ uploadedImageData # None /\ ~IsBlank(promptInput)) =>
              BagCardinality(pending') = Outstanding + 1
       /\ BagCardinality(pending') <= Outstanding + 1]_vars

\* two calls are outstanding at once
C10_Witness == Outstanding = 2

---------------------------------------------------------------------------
(* C11: in every reachable state the gallery has exactly one of three      *)
(* shapes, never a mixture: the loading indicator alone with aria-busy     *)
(* true; one error message alone with aria-busy false; or a possibly       *)
(* empty sequence of result images alone with aria-busy false.             *)

C11_ShowsLoading ==
    /\ imageGallery.ariaBusy
    /\ Len(imageGallery.innerHTML) = 1
    /\ imageGallery.innerHTML[1].kind = "loading"

C11_ShowsError ==
    /\ ~imageGallery.ariaBusy
    /\ Len(imageGallery.innerHTML) = 1
    /\ imageGallery.innerHTML[1].kind = "error"

C11_ShowsResults ==
    /\ ~imageGallery.ariaBusy
    /\ \A k \in 1..Len(imageGallery.innerHTML) : imageGallery.innerHTML[k].kind = "img"

C11_ExactlyOneShape ==
    Cardinality({shape \in {"loading", "error", "results"} :
                    \/ shape = "loading" /\ C11_ShowsLoading
                    \/ shape = "error" /\ C11_ShowsError
                    \/ shape = "results" /\ C11_ShowsResults}) = 1

\* result images are on show, and nothing else, while another call is still
\* outstanding
C11_Witness ==
    /\ C11_ShowsResults
    /\ Len(imageGallery.innerHTML) = 2
    /\ Outstanding > 0

---------------------------------------------------------------------------
(* C12, as claimed: after the selector changes from the editing model to   *)
(* any generation model, the upload store holds no image.                  *)

C12_SwitchAwayClearsStore ==
    [][\A m \in Models \ {"gemini-2.5-flash-image-preview"} :
          (modelSelector = "gemini-2.5-flash-image-preview" /\ HandleModelChange(m)) =>
              uploadedImageData' = None]_vars

(* C12, amended: a change of the selector to a generation model, from the  *)
(* editing model or from another generation model, leaves the upload       *)
(* store exactly as it was, an uploaded image included; the store is       *)
(* cleared by the switch into editing mode (C7), not by the switch away.   *)

C12_SwitchAwayKeepsStore ==
    [][\A m \in Models \ {"gemini-2.5-flash-image-preview"} :
          HandleModelChange(m) =>
              /\ uploadedImageData' = uploadedImageData
              /\ imageUpload' = imageUpload
              /\ imagePreview' = imagePreview]_vars

\* a generation model is selected and the store still holds the uploaded image
C12_Witness ==
    /\ modelSelector # "gemini-2.5-flash-image-preview"
    /\ imageEditingControls = "none"
    /\ uploadedImageData # None
    /\ imagePreview.display = "block"

---------------------------------------------------------------------------
(* C13: a file read that finishes with a failure leaves the upload store   *)
(* (and the preview) as it was before, a previously stored image or        *)
(* absent; the only step that puts an image into the store is a read that  *)
(* finishes successfully.                                                  *)

C13_FailedReadKeepsStore ==
    [][/\ \A r \in BagToSet(readers) :
            OnLoadEnd(r, FALSE) =>
                /\ uploadedImageData' = uploadedImageData
                /\ imagePreview' = imagePreview
       /\ (uploadedImageData' # uploadedImageData /\ uploadedImageData' # None) =>
              \E r \in BagToSet(readers) : OnLoadEnd(r, TRUE)]_vars

\* a file was chosen, its read has finished, and the store is still absent:
\* the read failed
C13_Witness ==
    /\ imageUpload = "a.png"
    /\ readers = EmptyBag
    /\ uploadedImageData = None
    /\ imagePreview.display = "none"

---------------------------------------------------------------------------
(* C14: an edit request uses the stored image and the trimmed prompt as    *)
(* they are at the click. The call issued carries exactly these; while it  *)
(* is outstanding no change of the store or of the prompt field alters     *)
(* it; and when it resolves every rendered image has the prompt of the     *)
(* submission as alt text.                                                 *)

\* the text between its first and its last non-blank character
C14_Trimmed(text) ==
    LET inked == {i \in 1..Len(text) : text[i] # " "}
    IN  IF inked = {}
        THEN <<>>
        ELSE SubSeq(text,
                    CHOOSE i \in inked : \A j \in inked : i <= j,
                    CHOOSE i \in inked : \A j \in inked : i >= j)

C14_SubmissionIsWhatIsUsed ==
    [][/\ (GenerateEditedImage /\ uploadedImageData # None /\ ~IsBlank(promptInput)) =>
              \E call \in BagToSet(pending') :
                  /\ pending' = Put(pending, call)
                  /\ call.api = "generateContent"
                  /\ call.image = uploadedImageData
                  /\ call.prompt = C14_Trimmed(promptInput)
       /\ settled' = None =>
              \A call \in BagToSet(pending) :
                  CopiesIn(call, pending') >= CopiesIn(call, pending)
       /\ (/\ settled' # None
           /\ settled'[1].api = "generateContent"
           /\ ~settled'[1].rejected) =>
              \E call \in BagToSet(pending) :
                  /\ pending' = Take(pending, call)
                  /\ call.prompt = settled'[1].prompt
                  /\ \A k \in 1..Len(imageGallery'.innerHTML) :
                        imageGallery'.innerHTML[k].kind = "img" =>
                            imageGallery'.innerHTML[k].alt = call.prompt]_vars

\* an edit call resolved with images after the store was cleared and the
\* prompt field emptied: the images carry the prompt of the submission
C14_Witness ==
    /\ settled # None
    /\ settled[1].api = "generateContent"
    /\ ~settled[1].rejected
    /\ uploadedImageData = None
    /\ promptInput = <<>>
    /\ Len(imageGallery.innerHTML) > 0
    /\ \A k \in 1..Len(imageGallery.innerHTML) :
          /\ imageGallery.innerHTML[k].kind = "img"
          /\ imageGallery.innerHTML[k].alt = <<"a">>

---------------------------------------------------------------------------
(* C15: when a generate call resolves with an image list, the gallery      *)
(* holds exactly the entries whose payload is present, in list order, and  *)
(* the entry at 1-based list position k is tagged                          *)
(* '<fixed prompt> - Image k': the numbers are list positions, so skipped  *)
(* entries leave gaps; skipping shows no error.                            *)

\* the list positions whose entry carries image bytes
C15_PresentPositions(images) == {k \in 1..Len(images) : HasImageBytes(images[k])}

\* the j-th smallest of a set of positions
C15_Nth(positions, j) ==
    CHOOSE k \in positions : Cardinality({i \in positions : i < k}) = j - 1

C15_TaggedByListPosition ==
    (/\ settled # None
     /\ ~settled[1].rejected
     /\ settled[1].api = "generateImages"
     /\ settled[1].response[1].generatedImages # None) =>
        LET images == settled[1].response[1].generatedImages[1]
            positions == C15_PresentPositions(images)
        IN  /\ ~imageGallery.ariaBusy
            /\ Len(imageGallery.innerHTML) = Cardinality(positions)
            /\ \A j \in 1..Cardinality(positions) :
                  LET k == C15_Nth(positions, j)
                  IN  imageGallery.innerHTML[j] =
                          [kind |-> "img",
                           text |-> "",
                           src |-> <<"data:", "image/jpeg", ";base64,",
                                     images[k].image[1].imageBytes[1]>>,
                           alt |-> settled[1].prompt \o <<" - Image ", ToString(k)>>]

\* a list whose first entry has no bytes: the only image shown is "Image 2"
C15_Witness ==
    /\ settled # None
    /\ ~settled[1].rejected
    /\ settled[1].api = "generateImages"
    /\ settled[1].response[1].generatedImages # None
    /\ Len(settled[1].response[1].generatedImages[1]) = 2
    /\ ~HasImageBytes(settled[1].response[1].generatedImages[1][1])
    /\ Len(imageGallery.innerHTML) = 1
    /\ imageGallery.innerHTML[1].alt =
           <<"Editorial wildlife photograph: ...", " - Image ", "2">>

---------------------------------------------------------------------------
(* C16: the loading state is shown only while a request is outstanding:    *)
(* in every reachable state with no service call outstanding the gallery   *)
(* is not busy and shows no loading indicator.                             *)

C16_NoCallNoLoading ==
    pending = EmptyBag =>
        /\ ~imageGallery.ariaBusy
        /\ \A k \in 1..Len(imageGallery.innerHTML) :
              imageGallery.innerHTML[k].kind # "loading"

\* the last outstanding call has just been handled, with a response that
\* carries no image list, and the loading indicator is gone
C16_Witness ==
    /\ pending = EmptyBag
    /\ settled # None
    /\ ~settled[1].rejected
    /\ settled[1].api = "generateImages"
    /\ settled[1].response[1].generatedImages = None
    /\ imageGallery = [ariaBusy |-> FALSE, innerHTML |-> <<>>]

---------------------------------------------------------------------------
(* C17, as claimed: no stale results. A call whose model is no longer the  *)
(* selected one was triggered before a later mode change; when such a      *)
(* call is settled, neither images nor an error of it are put into the     *)
(* gallery.                                                                *)

C17_NoStaleResults ==
    [][\A call \in BagToSet(pending) :
          (/\ settled' # None
           /\ pending' = Take(pending, call)
           /\ call.model # modelSelector) =>
              \A k \in 1..Len(imageGallery'.innerHTML) :
                  imageGallery'.innerHTML[k].kind \notin {"img", "error"}]_vars

---------------------------------------------------------------------------
(* C18, as claimed: a file read that was started before a switch into      *)
(* editing mode reset the upload, and that completes after it, does not    *)
(* repopulate the upload store: the store is left as the step found it.    *)

C18_StaleReadKeepsStore ==
    [][\A r \in BagToSet(readers) :
          (r.beforeReset /\ OnLoadEnd(r, TRUE)) =>
              /\ uploadedImageData' = uploadedImageData
              /\ imagePreview' = imagePreview]_vars

====
